---- MODULE Spec2Model ----
(***************************************************************************)
(* A model of darkdetect's listener lifecycle: BaseListener (the state     *)
(* machine of _base_listener.py), WindowsListener (_windows_detect.py) and *)
(* MPListener (_mac_detect.py), driven by several threads that call the    *)
(* public methods of ONE listener instance.  Every Python statement that   *)
(* reads or writes shared state is one step of the calling thread.         *)
(***************************************************************************)
EXTENDS Integers, Sequences, FiniteSets, TLC

\* ---------------------------------------------------------------- bounds
NumThreads == 2
MaxCalls == 3
MaxChanges == 1
MaxPushes == 2

Threads == 1..NumThreads
NoThread == 0

\* The three listener classes of the repository.
Classes == {"BaseListener", "WindowsListener", "MPListener"}

\* ListenerState (enum)
ListenerState == {"Listening", "Stopping", "Dead"}

\* Optional[int] timeouts handed to wait() / stop(): None or a number (the
\* code only ever tests "timeout is None")
Timeouts == {"None", "5"}

\* What an overridable strategy hook of a BaseListener subclass may do.
ListenOutcomes == {"return", "NotImplementedError", "Exception"}
StopOutcomes == {"return", "NotImplementedError", "Exception"}
WaitOutcomes == {"return", "DDTimeoutError", "NotImplementedError"}

VARIABLES
    cls,        \* class of the listener instance
    _state,     \* BaseListener._state
    pc,         \* per thread: the statement it executes next
    op,         \* per thread: the public method of its current / last call
    arg,        \* per thread: the timeout argument of that call
    ret,        \* per thread: who called stop(): "top", "listen" or "wait"
    entry,      \* per thread: _state when its current call was made
    last,       \* history: the call that ended last, and how it ended
    ncalls,     \* number of public calls made so far
    hooks,      \* how often _listen / _stop / _wait were invoked
    overlap,    \* history: some call began while another call was in progress
    session,    \* history: how the listen() calls made so far were ordered
                \* with respect to wait(): "fresh", "open", "waited", "broken"
    reg,        \* registry value AppsUseLightTheme (0 Dark, 1 Light)
    nchanges,   \* number of registry writes so far
    _lock,      \* WindowsListener._lock: 0 = attribute not set, else lock id
    nlocks,     \* number of threading.Lock objects created so far
    holder,     \* lock id -> thread holding it (NoThread = free)
    mylock,     \* per thread: lock object entered by "with self._lock"
    queryValueLast, \* per thread: local of WindowsListener._listen
    _q,         \* MPListener._q: 0 = None, else queue id
    _proc,      \* MPListener._proc: 0 = None, else process id
    nq,         \* number of Queue objects created so far
    np,         \* number of Process objects created so far
    procs,      \* process id -> [status, q]: its life and the queue it was given
    queues,     \* queue id -> [items, closed]
    delivered,  \* payloads handed to the user callback, in order
    pushed      \* history: payloads put on a relay queue by a worker, in order

baseVars == <<cls, _state, pc, op, arg, ret, entry, last, ncalls, hooks,
             overlap, session>>
winVars == <<reg, nchanges, _lock, nlocks, holder, mylock, queryValueLast>>
macVars == <<_q, _proc, nq, np, procs, queues, delivered, pushed>>
vars == <<baseVars, winVars, macVars>>

LockIds == 1..(MaxCalls + 1)
ObjIds == 1..(MaxCalls + 1)

\* Process.is_alive(): a started process that has not exited yet.  A process
\* that was sent SIGKILL ("killed") runs until the signal takes effect.
IsAlive(p) == procs[p].status \in {"alive", "killed"}

\* ------------------------------------------------------------ helpers
callVars == <<op, arg, ret, entry, last, session>>

Goto(t, l) == pc' = [pc EXCEPT ![t] = l]

\* Thread t goes on to statement l of its call.
Step(t, l) == Goto(t, l) /\ UNCHANGED callVars

\* The public call of thread t ends: normally (r = "ok") or by raising r.
\* Its frame is gone; the call and its outcome are remembered in last.
Finish(t, r) ==
    /\ pc' = [pc EXCEPT ![t] = "idle"]
    /\ last' = [op |-> op[t], result |-> r]
    /\ op' = [op EXCEPT ![t] = "none"]
    /\ arg' = [arg EXCEPT ![t] = "None"]
    /\ ret' = [ret EXCEPT ![t] = "top"]
    /\ entry' = [entry EXCEPT ![t] = "Dead"]
    /\ session' = IF op[t] = "wait" /\ r = "ok" /\ session = "open"
                    THEN "waited" ELSE session

Invoke(h) == hooks' = [hooks EXCEPT ![h] = @ + 1]

\* A thread starts a public call.
Begin(t, o, a, r) ==
    /\ pc[t] = "idle"
    /\ ncalls < MaxCalls
    /\ ncalls' = ncalls + 1
    /\ op' = [op EXCEPT ![t] = o]
    /\ arg' = [arg EXCEPT ![t] = a]
    /\ ret' = [ret EXCEPT ![t] = r]
    /\ entry' = [entry EXCEPT ![t] = _state]
    /\ overlap' = (overlap \/ \E u \in Threads \ {t} : pc[u] # "idle")
    /\ session' = IF o # "listen" THEN session
                   ELSE IF session \in {"fresh", "waited"}
                           /\ \A u \in Threads : op[u] # "wait"
                          THEN "open" ELSE "broken"
    /\ UNCHANGED last

\* _base_listener.py:39
AlreadyListeningNever(s) == FALSE
AlreadyListening(s) == s = "Listening"

\* _base_listener.py:41
StillStoppingNever(s) == FALSE
StillStopping(s) == s = "Stopping"

\* _base_listener.py:47
NotSupportedResetStopping == "Stopping"
NotSupportedReset == "Dead"

\* self.stop() is dispatched on the class: WindowsListener overrides it
StopEntry == IF cls = "WindowsListener" THEN "wstop_85" ELSE "stop_59"

\* _base_listener.py:59
ShouldStop(s) == s = "Listening"

\* _base_listener.py:70
MustWaitAlways(s) == TRUE
MustWait(s) == s # "Dead"

\* ------------------------------------------------- BaseListener.listen
\* listen() is called; line 39.
CallListen(t) ==
    /\ cls # "MPListener"
    /\ Begin(t, "listen", "None", "top")
    /\ IF AlreadyListening(_state)
         THEN pc' = [pc EXCEPT ![t] = "raise_concurrent"]
         ELSE pc' = [pc EXCEPT ![t] = "listen_41"]
    /\ UNCHANGED <<cls, _state, hooks, winVars, macVars>>

\* line 40: raise RuntimeError("Do not run .listen() from multiple threads ...")
ListenRaiseConcurrent(t) ==
    /\ pc[t] = "raise_concurrent"
    /\ Finish(t, "RuntimeError: concurrent listen")
    /\ UNCHANGED <<cls, overlap, _state, ncalls, hooks, winVars, macVars>>

\* line 41
ListenCheckStopping(t) ==
    /\ pc[t] = "listen_41"
    /\ Step(t, IF StillStopping(_state) THEN "raise_stopping" ELSE "listen_43")
    /\ UNCHANGED <<cls, overlap, _state, ncalls, hooks, winVars, macVars>>

\* line 42: raise RuntimeError("Call .wait() to wait for the previous listener ...")
ListenRaiseStopping(t) ==
    /\ pc[t] = "raise_stopping"
    /\ Finish(t, "RuntimeError: call wait first")
    /\ UNCHANGED <<cls, overlap, _state, ncalls, hooks, winVars, macVars>>

\* lines 43-45: self._state = Listening, then self._listen() is entered
\* (dispatched on the class)
ListenSetListening(t) ==
    /\ pc[t] = "listen_43"
    /\ _state' = "Listening"
    /\ Invoke("_listen")
    /\ Step(t, IF cls = "WindowsListener" THEN "wl_93" ELSE "in_listen")
    /\ UNCHANGED <<cls, overlap, ncalls, winVars, macVars>>

\* BaseListener._listen as overridden by a subclass: it blocks, then returns
\* or raises (BaseListener's own body raises NotImplementedError).  Another
\* exception is caught at line 49 and the handler calls self.stop() (line 50).
ListenHookEnds(t) ==
    /\ pc[t] = "in_listen"
    /\ \E o \in ListenOutcomes :
         CASE o = "return" -> Finish(t, "ok")
           [] o = "NotImplementedError" -> Step(t, "listen_47")
           [] o = "Exception" ->
                /\ ret' = [ret EXCEPT ![t] = "listen"]
                /\ Goto(t, StopEntry)
                /\ UNCHANGED <<op, arg, entry, last, session>>
    /\ UNCHANGED <<cls, overlap, _state, ncalls, hooks, winVars, macVars>>

\* lines 46-48: except NotImplementedError: self._state = Dead; raise
ListenNotSupported(t) ==
    /\ pc[t] = "listen_47"
    /\ _state' = NotSupportedReset
    /\ Finish(t, "NotImplementedError")
    /\ UNCHANGED <<cls, overlap, ncalls, hooks, winVars, macVars>>

\* --------------------------------------------------- BaseListener.stop
\* stop() is called by the user.  WindowsListener overrides stop(timeout).
CallStop(t) ==
    /\ cls # "MPListener"
    /\ \E a \in (IF cls = "WindowsListener" THEN Timeouts ELSE {"None"}) :
         Begin(t, "stop", a, "top")
    /\ Goto(t, StopEntry)
    /\ UNCHANGED <<cls, _state, hooks, winVars, macVars>>

\* stop() returns to its caller: the user, listen() at line 50, which goes on
\* to raise RuntimeError("Listen failed") at line 51, or wait() at line 71.
StopReturns(t) ==
    CASE ret[t] = "top" -> Finish(t, "ok")
      [] ret[t] = "listen" -> Finish(t, "RuntimeError: Listen failed")
      [] ret[t] = "wait" -> Step(t, "wait_72")

\* line 59
StopCheck(t) ==
    /\ pc[t] = "stop_59"
    /\ IF ShouldStop(_state)
         THEN Step(t, "stop_60")
         ELSE StopReturns(t)
    /\ UNCHANGED <<cls, overlap, _state, ncalls, hooks, winVars, macVars>>

\* line 60: self._stop(); an exception of the hook leaves stop() and its
\* caller (listen's handler at line 50, wait at line 71) unhandled.
StopHook(t) ==
    /\ pc[t] = "stop_60"
    /\ Invoke("_stop")
    /\ \E o \in StopOutcomes :
         IF o = "return"
           THEN Step(t, "stop_61")
           ELSE Finish(t, o)
    /\ UNCHANGED <<cls, overlap, _state, ncalls, winVars, macVars>>

\* line 61
StopSetStopping(t) ==
    /\ pc[t] = "stop_61"
    /\ _state' = "Stopping"
    /\ StopReturns(t)
    /\ UNCHANGED <<cls, overlap, ncalls, hooks, winVars, macVars>>

\* --------------------------------------------------- BaseListener.wait
\* wait(timeout) is called; line 70, and the call of self.stop() at line 71.
CallWait(t) ==
    /\ cls # "MPListener"
    /\ \E a \in Timeouts :
         Begin(t, "wait", a, IF MustWait(_state) THEN "wait" ELSE "top")
    /\ Goto(t, IF MustWait(_state) THEN StopEntry ELSE "wait_return")
    /\ UNCHANGED <<cls, _state, hooks, winVars, macVars>>

\* wait() falls off its end.
WaitReturns(t) ==
    /\ pc[t] = "wait_return"
    /\ Finish(t, "ok")
    /\ UNCHANGED <<cls, overlap, _state, ncalls, hooks, winVars, macVars>>

\* line 72: self._wait(timeout)
WaitHook(t) ==
    /\ pc[t] = "wait_72"
    /\ Invoke("_wait")
    /\ \E o \in WaitOutcomes :
         IF o = "return"
           THEN Step(t, "wait_73")
           ELSE Finish(t, o)
    /\ UNCHANGED <<cls, overlap, _state, ncalls, winVars, macVars>>

\* line 73
WaitSetDead(t) ==
    /\ pc[t] = "wait_73"
    /\ _state' = "Dead"
    /\ Finish(t, "ok")
    /\ UNCHANGED <<cls, overlap, ncalls, hooks, winVars, macVars>>

\* ------------------------------------------------ WindowsListener.stop
\* _windows_detect.py:85-89.  A call made by BaseListener.listen (line 50)
\* or BaseListener.wait (line 71) passes no argument, so timeout is None.
TimeoutOfStop(t) == IF ret[t] = "top" THEN arg[t] ELSE "None"

\* _windows_detect.py:85
TimeoutIsNoneNever(a) == FALSE
TimeoutIsNone(a) == a = "None"

\* _windows_detect.py:85-90.  With a timeout, super().stop(timeout) is
\* called: BaseListener.stop takes no parameter besides self, so the call
\* itself raises TypeError.
WStop(t) ==
    /\ pc[t] = "wstop_85"
    /\ Finish(t, IF TimeoutIsNone(TimeoutOfStop(t))
                   THEN "ValueError" ELSE "TypeError")
    /\ UNCHANGED <<cls, overlap, _state, ncalls, hooks, winVars, macVars>>

\* --------------------------------------------- WindowsListener._listen
\* The registry key is written (by the OS or the user); every thread blocked
\* in RegNotifyChangeKeyValue wakes up.
RegistryChange ==
    /\ cls = "WindowsListener"
    /\ nchanges < MaxChanges
    /\ nchanges' = nchanges + 1
    /\ reg' \in {0, 1}
    /\ pc' = [t \in Threads |-> IF pc[t] = "wl_117" THEN "wl_124" ELSE pc[t]]
    /\ UNCHANGED callVars
    /\ UNCHANGED <<cls, overlap, _state, ncalls, hooks,
                   _lock, nlocks, holder, mylock, queryValueLast, macVars>>

\* lines 93-112: open the key, read the initial value into queryValueLast
WListenOpen(t) ==
    /\ pc[t] = "wl_93"
    /\ queryValueLast' = [queryValueLast EXCEPT ![t] = reg]
    /\ Step(t, "wl_114")
    /\ UNCHANGED <<cls, overlap, _state, ncalls, hooks,
                   reg, nchanges, _lock, nlocks, holder, mylock, macVars>>

\* line 114: self._lock = threading.Lock()
WListenNewLock(t) ==
    /\ pc[t] = "wl_114"
    /\ nlocks' = nlocks + 1
    /\ _lock' = nlocks + 1
    /\ Step(t, "wl_115")
    /\ UNCHANGED <<cls, overlap, _state, ncalls, hooks,
                   reg, nchanges, holder, mylock, queryValueLast, macVars>>

\* line 115: "with self._lock" evaluates the attribute ...
WListenReadLock(t) ==
    /\ pc[t] = "wl_115"
    /\ mylock' = [mylock EXCEPT ![t] = _lock]
    /\ Step(t, "wl_acquire")
    /\ UNCHANGED <<cls, overlap, _state, ncalls, hooks,
                   reg, nchanges, _lock, nlocks, holder, queryValueLast, macVars>>

\* ... and acquires that lock, blocking while another thread holds it
WListenAcquire(t) ==
    /\ pc[t] = "wl_acquire"
    /\ holder[mylock[t]] = NoThread
    /\ holder' = [holder EXCEPT ![mylock[t]] = t]
    /\ Step(t, "wl_116")
    /\ UNCHANGED <<cls, overlap, _state, ncalls, hooks,
                   reg, nchanges, _lock, nlocks, mylock, queryValueLast, macVars>>

\* line 116: while self._state == Listening; lines 117-123: the blocking
\* RegNotifyChangeKeyValue call is entered when the test succeeds
WListenTest(t) ==
    /\ pc[t] = "wl_116"
    /\ Step(t, IF _state = "Listening" THEN "wl_117" ELSE "wl_exit")
    /\ UNCHANGED <<cls, overlap, _state, ncalls, hooks, winVars, macVars>>

\* lines 124-133: re-read the value into the local queryValue and compare
\* it with queryValueLast
WListenQuery(t) ==
    /\ pc[t] = "wl_124"
    /\ LET queryValue == reg IN
         IF queryValueLast[t] # queryValue
           THEN /\ queryValueLast' = [queryValueLast EXCEPT ![t] = queryValue]
                /\ Step(t, "wl_134")
           ELSE /\ UNCHANGED queryValueLast
                /\ Step(t, "wl_116")
    /\ UNCHANGED <<cls, overlap, _state, ncalls, hooks,
                   reg, nchanges, _lock, nlocks, holder, mylock, macVars>>

\* line 134: 'Light' if queryValue.value else 'Dark'
ThemeOf(v) == IF v # 0 THEN "Light" ELSE "Dark"

\* line 134: self._invoke_callback(...).  Neither WindowsListener nor
\* BaseListener defines _invoke_callback (the callback is stored in
\* self.callback), so the attribute lookup raises AttributeError; the
\* exception leaves the with block, which releases the lock, ends _listen
\* (its locals are gone) and reaches the "except Exception" handler of
\* BaseListener.listen (_base_listener.py:49), which calls self.stop().
WListenInvokeCallback(t) ==
    /\ pc[t] = "wl_134"
    /\ holder' = [holder EXCEPT ![mylock[t]] = NoThread]
    /\ mylock' = [mylock EXCEPT ![t] = 0]
    /\ queryValueLast' = [queryValueLast EXCEPT ![t] = 0]
    /\ ret' = [ret EXCEPT ![t] = "listen"]
    /\ Goto(t, StopEntry)
    /\ UNCHANGED <<op, arg, entry, last, session>>
    /\ UNCHANGED <<cls, overlap, _state, ncalls, hooks,
                   reg, nchanges, _lock, nlocks, macVars>>

\* the loop test failed: the with block releases the lock, _listen returns
\* and listen() returns.  No WindowsListener ever gets here (LoopNeverExits):
\* its _state leaves Listening only in stop(), and WindowsListener.stop always
\* raises before BaseListener.stop runs; so Next does not list this action.
WListenExit(t) ==
    /\ pc[t] = "wl_exit"
    /\ holder' = [holder EXCEPT ![mylock[t]] = NoThread]
    /\ mylock' = [mylock EXCEPT ![t] = 0]
    /\ queryValueLast' = [queryValueLast EXCEPT ![t] = 0]
    /\ Finish(t, "ok")
    /\ UNCHANGED <<cls, overlap, _state, ncalls, hooks,
                   reg, nchanges, _lock, nlocks, macVars>>


\* ---------------------------------------------------- MPListener.listen
\* listen(callback) is called; _mac_detect.py:96
CallMListen(t) ==
    /\ cls = "MPListener"
    /\ Begin(t, "listen", "None", "top")
    /\ Goto(t, IF _q # 0 THEN "m_97" ELSE "m_98")
    /\ UNCHANGED <<cls, _state, hooks, winVars, macVars>>

\* line 97: raise RuntimeError("Do not call listen twice")
MListenRaiseTwice(t) ==
    /\ pc[t] = "m_97"
    /\ Finish(t, "RuntimeError: listen twice")
    /\ UNCHANGED <<cls, overlap, _state, ncalls, hooks, winVars, macVars>>

\* line 98: self._q = Queue(maxsize=0)
MListenNewQueue(t) ==
    /\ pc[t] = "m_98"
    /\ nq' = nq + 1
    /\ _q' = nq + 1
    /\ Step(t, "m_100")
    /\ UNCHANGED <<cls, overlap, _state, ncalls, hooks, winVars,
                   _proc, np, procs, queues, delivered, pushed>>

\* line 100: self._proc = Process(target=self._listen_child, args=(self._q,))
MListenNewProcess(t) ==
    /\ pc[t] = "m_100"
    /\ np' = np + 1
    /\ _proc' = np + 1
    /\ procs' = [procs EXCEPT ![np + 1] = [status |-> "created", q |-> _q]]
    /\ Step(t, "m_101")
    /\ UNCHANGED <<cls, overlap, _state, ncalls, hooks, winVars,
                   _q, nq, queues, delivered, pushed>>

\* line 101: self._proc.start(); starting a Process object a second time
\* fails its assertion, and nothing in listen() catches that.
MListenStart(t) ==
    /\ pc[t] = "m_101"
    /\ IF procs[_proc].status = "created"
         THEN /\ procs' = [procs EXCEPT ![_proc].status = "alive"]
              /\ Step(t, "m_103")
         ELSE /\ Finish(t, "AssertionError")
              /\ UNCHANGED procs
    /\ UNCHANGED <<cls, overlap, _state, ncalls, hooks, winVars,
                   _q, _proc, nq, np, queues, delivered, pushed>>

\* line 103: while self._proc.is_alive()
MListenTest(t) ==
    /\ pc[t] = "m_103"
    /\ IF IsAlive(_proc)
         THEN Step(t, "m_104")
         ELSE Finish(t, "ok")
    /\ UNCHANGED <<cls, overlap, _state, ncalls, hooks, winVars, macVars>>

\* line 104: callback(self._q.get()).  get() has no timeout: it blocks while
\* the queue is empty (queue.Empty is never raised), and raises ValueError on
\* a queue that this process has closed.  The item it returns is handed to
\* the user callback, which then runs in this thread.
MListenGet(t) ==
    /\ pc[t] = "m_104"
    /\ IF queues[_q].closed
         THEN /\ Finish(t, "ValueError")
              /\ UNCHANGED <<queues, delivered>>
         ELSE /\ queues[_q].items # <<>>
              /\ delivered' = Append(delivered, Head(queues[_q].items))
              /\ queues' = [queues EXCEPT ![_q].items = Tail(@)]
              /\ Step(t, "in_callback")
    /\ UNCHANGED <<cls, overlap, _state, ncalls, hooks, winVars,
                   _q, _proc, nq, np, procs, pushed>>

\* line 104: the user callback returns; back to the loop test
MListenCallbackReturns(t) ==
    /\ pc[t] = "in_callback"
    /\ Step(t, "m_103")
    /\ UNCHANGED <<cls, overlap, _state, ncalls, hooks, winVars, macVars>>

\* ------------------------------------------------------ MPListener.wait
\* wait() is called; line 112
CallMWait(t) ==
    /\ cls = "MPListener"
    /\ Begin(t, "wait", "None", "top")
    /\ Goto(t, IF _q # 0 THEN "m_113" ELSE "m_return")
    /\ UNCHANGED <<cls, _state, hooks, winVars, macVars>>

\* wait() falls off its end
MWaitReturns(t) ==
    /\ pc[t] = "m_return"
    /\ Finish(t, "ok")
    /\ UNCHANGED <<cls, overlap, _state, ncalls, hooks, winVars, macVars>>

\* line 113: self._proc.kill().  kill() sends SIGKILL and returns; it does
\* not wait for the process to exit.  On None, or on a Process that was not
\* started (its _popen is None), the call raises AttributeError.
MWaitKill(t) ==
    /\ pc[t] = "m_113"
    /\ IF _proc = 0 \/ procs[_proc].status = "created"
         THEN /\ Finish(t, "AttributeError")
              /\ UNCHANGED procs
         ELSE /\ procs' = [procs EXCEPT ![_proc].status =
                             IF @ = "alive" THEN "killed" ELSE @]
              /\ Step(t, "m_114")
    /\ UNCHANGED <<cls, overlap, _state, ncalls, hooks, winVars,
                   _q, _proc, nq, np, queues, delivered, pushed>>

\* line 114: self._q.close()
MWaitClose(t) ==
    /\ pc[t] = "m_114"
    /\ queues' = [queues EXCEPT ![_q].closed = TRUE]
    /\ Step(t, "m_115")
    /\ UNCHANGED <<cls, overlap, _state, ncalls, hooks, winVars,
                   _q, _proc, nq, np, procs, delivered, pushed>>

\* line 115: self._q.join_thread() asserts that the queue is closed; this
\* process never put anything, so there is no feeder thread to join.
MWaitJoinThread(t) ==
    /\ pc[t] = "m_115"
    /\ Finish(t, IF queues[_q].closed THEN "ok" ELSE "AssertionError")
    /\ UNCHANGED <<cls, overlap, _state, ncalls, hooks, winVars, macVars>>

\* ------------------------------------------- MPListener._listen_child
\* line 124: theme() as probed by an observer.  The notification reports a
\* change of the theme, so the probe differs from the one before it.
Probes == IF pushed = <<>> THEN {"Dark", "Light"}
          ELSE {"Dark", "Light"} \ {pushed[Len(pushed)]}

\* lines 122-132: the observer of a running worker receives a theme-changed
\* notification and puts theme() on the queue it was given
WorkerPush(p) ==
    /\ IsAlive(p)
    /\ Len(pushed) < MaxPushes
    /\ \E th \in Probes :
         /\ queues' = [queues EXCEPT ![procs[p].q].items = Append(@, th)]
         /\ pushed' = Append(pushed, th)
    /\ UNCHANGED <<baseVars, winVars, _q, _proc, nq, np, procs, delivered>>

\* the SIGKILL sent by kill() takes effect: the worker is gone
WorkerDies(p) ==
    /\ procs[p].status = "killed"
    /\ procs' = [procs EXCEPT ![p].status = "dead"]
    /\ UNCHANGED <<baseVars, winVars, _q, _proc, nq, np, queues, delivered, pushed>>

\* ------------------------------------------------------------ the system
Init ==
    /\ cls \in Classes
    /\ _state = "Dead"
    /\ pc = [t \in Threads |-> "idle"]
    /\ op = [t \in Threads |-> "none"]
    /\ arg = [t \in Threads |-> "None"]
    /\ ret = [t \in Threads |-> "top"]
    /\ entry = [t \in Threads |-> "Dead"]
    /\ last = [op |-> "none", result |-> "none"]
    /\ ncalls = 0
    /\ hooks = [h \in {"_listen", "_stop", "_wait"} |-> 0]
    /\ overlap = FALSE
    /\ session = "fresh"
    /\ reg \in (IF cls = "WindowsListener" THEN {0, 1} ELSE {0})
    /\ nchanges = 0
    /\ _lock = 0
    /\ nlocks = 0
    /\ holder = [l \in LockIds |-> NoThread]
    /\ mylock = [t \in Threads |-> 0]
    /\ queryValueLast = [t \in Threads |-> 0]
    /\ _q = 0
    /\ _proc = 0
    /\ nq = 0
    /\ np = 0
    /\ procs = [p \in ObjIds |-> [status |-> "none", q |-> 0]]
    /\ queues = [q \in ObjIds |-> [items |-> <<>>, closed |-> FALSE]]
    /\ delivered = <<>>
    /\ pushed = <<>>

Next ==
    \/ RegistryChange
    \/ \E p \in ObjIds : WorkerPush(p) \/ WorkerDies(p)
    \/ \E t \in Threads :
         \/ CallListen(t) \/ ListenRaiseConcurrent(t) \/ ListenCheckStopping(t)
         \/ ListenRaiseStopping(t) \/ ListenSetListening(t)
         \/ ListenHookEnds(t) \/ ListenNotSupported(t)
         \/ CallStop(t) \/ StopCheck(t) \/ StopHook(t) \/ StopSetStopping(t)
         \/ CallWait(t) \/ WaitReturns(t) \/ WaitHook(t)
         \/ WaitSetDead(t)
         \/ WStop(t)
         \/ WListenOpen(t) \/ WListenNewLock(t) \/ WListenReadLock(t)
         \/ WListenAcquire(t) \/ WListenTest(t) \/ WListenQuery(t)
         \/ WListenInvokeCallback(t)
         \/ CallMListen(t) \/ MListenRaiseTwice(t) \/ MListenNewQueue(t)
         \/ MListenNewProcess(t) \/ MListenStart(t) \/ MListenTest(t)
         \/ MListenGet(t) \/ MListenCallbackReturns(t)
         \/ CallMWait(t) \/ MWaitReturns(t) \/ MWaitKill(t) \/ MWaitClose(t)
         \/ MWaitJoinThread(t)

Spec == Init /\ [][Next]_vars

\* ------------------------------------------------------- derived notions
\* the threads that are inside the registry watch loop (lines 115-134)
WinLoopPcs == {"wl_116", "wl_117", "wl_124", "wl_134", "wl_exit"}
InWatchLoop == {t \in Threads : pc[t] \in WinLoopPcs}
AliveWorkers == {p \in ObjIds : IsAlive(p)}

\* thread t takes a step
Steps(t) == pc'[t] # pc[t]
\* thread t makes its public call o in this step
Calls(t, o) == pc[t] = "idle" /\ pc'[t] # "idle" /\ op'[t] = o
\* the public call o of thread t ends in this step
Ends(t, o) == pc[t] # "idle" /\ pc'[t] = "idle" /\ op[t] = o

\* WListenExit is not enabled in any reachable state.
LoopNeverExits == \A t \in Threads : pc[t] # "wl_exit"

\* --------------------------------------------------------------- claims
Legal3 == {<<"Dead", "Listening">>, <<"Listening", "Stopping">>,
           <<"Stopping", "Dead">>}
Legal4 == Legal3 \union {<<"Listening", "Dead">>}

\* a listen() that finds the state Listening (line 39) or Stopping (line 41)
\* goes on to raise, and the raise changes nothing
IllegalListenRaises ==
    \A t \in Threads :
      /\ (Calls(t, "listen") /\ cls # "MPListener" /\ _state = "Listening")
            => pc'[t] = "raise_concurrent"
      /\ (pc[t] = "listen_41" /\ Steps(t) /\ _state = "Stopping")
            => pc'[t] = "raise_stopping"
      /\ (pc[t] \in {"raise_concurrent", "raise_stopping"} /\ Steps(t))
            => /\ Ends(t, "listen")
               /\ last'.result \in {"RuntimeError: concurrent listen",
                                    "RuntimeError: call wait first"}
               /\ _state' = _state

C2_Original ==
    [][\A t \in Threads :
         (/\ cls = "WindowsListener"
          /\ Ends(t, "wait") /\ arg[t] # "None" /\ entry[t] = "Listening")
            => last'.result = "ok"]_vars

\* C3 as stated, for WindowsListener: a wait(timeout) made in state Listening
\* or Stopping that ends while the watch loop is still running has raised
\* DDTimeoutError, and the state is Stopping.
C3_Original ==
    [][\A t \in Threads :
         (/\ cls = "WindowsListener"
          /\ Ends(t, "wait") /\ arg[t] # "None"
          /\ entry[t] \in {"Listening", "Stopping"}
          /\ InWatchLoop' # {})
            => (last'.result = "DDTimeoutError" /\ _state' = "Stopping")]_vars

\* C4 as stated, for the wait() calls that found something to wait for
\* (_state not Dead at _base_listener.py:70, _q set at _mac_detect.py:112):
\* in the state right after such a call returned without raising, no watch
\* loop of the listener is running and no worker process of the listener is
\* alive.
C4_Original ==
    [][\A t \in Threads :
         (/\ Ends(t, "wait") /\ last'.result = "ok"
          /\ pc[t] \notin {"wait_return", "m_return"})
            => (InWatchLoop' = {} /\ AliveWorkers' = {})]_vars

\* C5 as stated: at most one registry watch loop is running and at most one
\* worker process is alive, in every reachable state.
C5_Original ==
    /\ Cardinality(InWatchLoop) <= 1
    /\ Cardinality(AliveWorkers) <= 1

\* C6: a listen() call that finds the state Listening (line 39) or Stopping
\* (line 41) raises RuntimeError; none of its steps changes _state, enters
\* _listen, or invokes _stop or _wait.
C6_RejectedListen ==
    [][\A t \in Threads :
         /\ (Calls(t, "listen") /\ cls # "MPListener" /\ _state = "Listening")
               => (pc'[t] = "raise_concurrent"
                   /\ _state' = _state /\ hooks' = hooks)
         /\ (pc[t] = "listen_41" /\ Steps(t) /\ _state = "Stopping")
               => (pc'[t] = "raise_stopping"
                   /\ _state' = _state /\ hooks' = hooks)
         /\ (pc[t] = "raise_concurrent" /\ Steps(t))
               => (Ends(t, "listen")
                   /\ last'.result = "RuntimeError: concurrent listen"
                   /\ _state' = _state /\ hooks' = hooks)
         /\ (pc[t] = "raise_stopping" /\ Steps(t))
               => (Ends(t, "listen")
                   /\ last'.result = "RuntimeError: call wait first"
                   /\ _state' = _state /\ hooks' = hooks)]_vars

C6_Witness ==
    /\ last.op = "listen"
    /\ last.result = "RuntimeError: call wait first"
    /\ _state = "Stopping"
    /\ hooks["_listen"] = 1

\* C7 as stated: a step of a user's stop() that finds the state Stopping or
\* Dead raises nothing, leaves _state unchanged and does not invoke _stop.
C7_Original ==
    [][\A t \in Threads :
         (/\ op[t] = "stop" /\ pc[t] \in {"stop_59", "wstop_85"}
          /\ Steps(t) /\ _state \in {"Stopping", "Dead"})
            => (/\ pc'[t] = "idle" => last'.result = "ok"
                /\ _state' = _state /\ hooks' = hooks)]_vars

\* C8 as stated: a stop() made on a WindowsListener in state Listening has
\* invoked the _stop hook when it ends, and it ends without raising.
C8_Original ==
    [][\A t \in Threads :
         (/\ cls = "WindowsListener"
          /\ Ends(t, "stop") /\ entry[t] = "Listening")
            => (last'.result = "ok" /\ hooks'["_stop"] > 0)]_vars

\* C9: wait(timeout) made in state Dead, for every timeout, goes straight to
\* its end and returns without raising; its steps leave _state unchanged and
\* invoke neither stop() nor the _stop or _wait hook.
C9_WaitWhenDead ==
    [][\A t \in Threads :
         /\ (Calls(t, "wait") /\ cls # "MPListener" /\ _state = "Dead")
               => (pc'[t] = "wait_return" /\ ret'[t] = "top"
                   /\ _state' = "Dead" /\ hooks' = hooks)
         /\ (pc[t] = "wait_return" /\ Steps(t))
               => (Ends(t, "wait") /\ last'.result = "ok"
                   /\ _state' = _state /\ hooks' = hooks)]_vars

C9_Witness ==
    /\ last.op = "wait" /\ last.result = "ok"
    /\ hooks["_stop"] = 0 /\ hooks["_wait"] = 0
    /\ _state = "Dead"

\* C10: when _listen raises NotImplementedError, listen() has not called
\* stop(), sets _state to Dead and ends with NotImplementedError without
\* invoking a hook; and a listen() that finds the state Dead is accepted.
C10_NotSupported ==
    /\ [](\A t \in Threads : pc[t] = "listen_47" => ret[t] = "top")
    /\ [][\A t \in Threads :
            /\ (pc[t] = "listen_47" /\ Steps(t))
                  => (/\ Ends(t, "listen")
                      /\ last'.result = "NotImplementedError"
                      /\ _state' = "Dead" /\ hooks' = hooks)
            /\ (Calls(t, "listen") /\ cls # "MPListener" /\ _state = "Dead")
                  => pc'[t] = "listen_41"
            /\ (pc[t] = "listen_41" /\ Steps(t) /\ _state = "Dead")
                  => pc'[t] = "listen_43"]_vars

\* a listen() ended with NotImplementedError, and the next listen() on the
\* same instance passed both checks and is about to set Listening
C10_Witness ==
    /\ ~overlap
    /\ last.op = "listen" /\ last.result = "NotImplementedError"
    /\ hooks["_listen"] = 1 /\ hooks["_stop"] = 0
    /\ \E u \in Threads : op[u] = "listen" /\ pc[u] = "listen_43"

\* C11 as stated, for WindowsListener: when _listen raised an exception other
\* than NotImplementedError, listen() ends by raising RuntimeError("Listen
\* failed"), after stop() has invoked the _stop hook and set _state to
\* Stopping.
C11_Original ==
    [][\A t \in Threads :
         (/\ cls = "WindowsListener"
          /\ Ends(t, "listen") /\ ret[t] = "listen")
            => (/\ last'.result = "RuntimeError: Listen failed"
                /\ hooks'["_stop"] > 0
                /\ _state' = "Stopping")]_vars

\* C12 as stated: at a wake of the registry watch loop whose re-read value
\* differs from the last observed value, the user callback receives the
\* theme of the new value (0 -> "Dark", 1 -> "Light").
C12_Original ==
    [][\A t \in Threads :
         (pc[t] = "wl_134" /\ Steps(t))
            => delivered' = Append(delivered, ThemeOf(queryValueLast[t]))]_vars

\* the threads that are executing the user callback
InCallback == {t \in Threads : pc[t] = "in_callback"}

\* C13 as stated: as long as every listen() call was made when no listen()
\* had been made before, or after a wait() made since the previous listen()
\* has returned, the user callback runs in at most one thread at a time, and
\* only in a thread that is inside listen().
C13_Original ==
    session # "broken"
       => /\ Cardinality(InCallback) <= 1
          /\ \A t \in InCallback : op[t] = "listen"

\* C14: on a WindowsListener, a wait() with no timeout that finds the state
\* not Dead (line 70) goes into stop() (line 71) and ends there by raising
\* ValueError: it never reaches the blocking _wait step, and none of its
\* steps changes _state or invokes a hook.
C14_WaitNoneRejected ==
    [][\A t \in Threads :
         /\ (/\ cls = "WindowsListener"
             /\ Calls(t, "wait") /\ arg'[t] = "None" /\ _state # "Dead")
               => (/\ pc'[t] = "wstop_85" /\ ret'[t] = "wait"
                   /\ _state' = _state /\ hooks' = hooks)
         /\ (/\ cls = "WindowsListener"
             /\ op[t] = "wait" /\ arg[t] = "None" /\ ret[t] = "wait"
             /\ Steps(t))
               => (/\ Ends(t, "wait") /\ last'.result = "ValueError"
                   /\ _state' = _state /\ hooks' = hooks)]_vars

\* a wait() with no timeout found a listening WindowsListener and is about
\* to be rejected by stop()
C14_Witness ==
    /\ cls = "WindowsListener"
    /\ _state = "Listening"
    /\ \E t \in Threads :
         /\ op[t] = "wait" /\ arg[t] = "None" /\ entry[t] = "Listening"
         /\ pc[t] = "wstop_85" /\ ret[t] = "wait"

\* C15 as stated, in the form a finite run refutes: a listen() of an
\* MPListener that has started its worker ends by leaving the drain loop and
\* returning, never by raising.
C15_Original ==
    [][\A t \in Threads :
         (/\ cls = "MPListener"
          /\ Ends(t, "listen") /\ pc[t] \in {"m_103", "m_104"})
            => last'.result = "ok"]_vars

\* s is an initial segment of r
IsPrefix(s, r) == Len(s) <= Len(r) /\ \A i \in 1..Len(s) : s[i] = r[i]

\* C16 as stated: at every point the sequence of callback payloads is a
\* prefix of the sequence of items pushed by the workers' observers (no item
\* is lost, duplicated or reordered).
C16_Original == IsPrefix(delivered, pushed)

\* On a WindowsListener the state never leaves Listening once a listen() has
\* set it: stop() raises before BaseListener.stop runs, wait() raises out of
\* stop(), and _listen never raises NotImplementedError.
WinStaysListening ==
    [][cls = "WindowsListener" /\ _state = "Listening"
          => _state' = "Listening"]_vars

\* No call on a WindowsListener gets as far as _wait (lines 72-73 of
\* _base_listener.py); _wait_for_shutdown is called by no code at all.
WinNeverWaits ==
    cls = "WindowsListener"
       => \A t \in Threads : pc[t] \notin {"stop_59", "stop_60", "stop_61",
                                              "wait_72", "wait_73"}

\* C19 as stated: a wait() on an MPListener never fails, whenever it is made
\* during or after a listen().
C19_Original ==
    [][\A t \in Threads :
         (cls = "MPListener" /\ Ends(t, "wait")) => last'.result = "ok"]_vars

\* C20 as stated: whenever no thread is inside listen() on a BaseListener,
\* its state is not Listening.
C20_Original ==
    (cls # "MPListener" /\ \A t \in Threads : op[t] # "listen")
       => _state # "Listening"

====
